---- MODULE Spec2Model ----
(***************************************************************************)
(* A model of src/plot.py: the duration parser (parse_time), the scenario  *)
(* data loader (load_output_data), the figure builder (make_figure) and    *)
(* the dashboard renderer (figures_to_html).                               *)
(*                                                                         *)
(* Python strings are sequences of one-character strings, so that regular  *)
(* expression matching, substring tests, prefix tests and string ordering  *)
(* are computed rather than assumed.  A Python dict is a sequence of       *)
(* <<key, value>> pairs with distinct keys, in insertion order.            *)
(***************************************************************************)
EXTENDS Integers, Sequences, FiniteSets, TLC

VARIABLES pc, segments, time_str, parsed, config, fs, labels, all_impl,
          loaded, figures, handle, html

\* pc        where the run is: "input"/"parsed" (parse_time on its own),
\*           "start", "loaded", "figured", "returned", "written", "failed"
\* segments  the segments time_str is made of;  time_str  parse_time's input
\* parsed    what parse_time returned or raised
\* config    the configuration mapping the caller holds
\* fs        the file system: its missing and its unreadable paths
\* labels    the labels mapping of labels.json
\* all_impl  what Series.all() returns in the pandas installed
\* loaded    the last load_output_data call: its error, tables, format and
\*           the paths it read, in order
\* figures   what make_figure returned: per scenario, a dict title -> figure
\* handle    the file handle of figures_to_html: "none", "open", "closed"
\* html      the chunks written to the dashboard file
vars == <<pc, segments, time_str, parsed, config, fs, labels, all_impl,
          loaded, figures, handle, html>>

(***************************************************************************)
(* Bounds of the model.                                                    *)
(***************************************************************************)
MaxSegments == 4

MaxScenarios == 2

MaxSummary == 2

MaxFaults == 2

MaxLabels == 2

RowsPerFile == 2

(***************************************************************************)
(* Strings.                                                                *)
(***************************************************************************)
Digits == {"0", "1", "2", "3", "4", "5", "6", "7", "8", "9"}

DigitVal(c) ==
  CASE c = "0" -> 0 [] c = "1" -> 1 [] c = "2" -> 2 [] c = "3" -> 3
    [] c = "4" -> 4 [] c = "5" -> 5 [] c = "6" -> 6 [] c = "7" -> 7
    [] c = "8" -> 8 [] c = "9" -> 9

\* The code point of a character, for the characters a percentile holds.
Ord(c) == IF c = "." THEN 46 ELSE 48 + DigitVal(c)

\* sub in s
Contains(sub, s) ==
  \E i \in 1..(Len(s) - Len(sub) + 1) : SubSeq(s, i, i + Len(sub) - 1) = sub

\* s.startswith(prefix)
StartsWith(s, prefix) ==
  Len(s) >= Len(prefix) /\ SubSeq(s, 1, Len(prefix)) = prefix

\* Python's < on strings: by code point, a proper prefix first.
RECURSIVE StrLess(_, _)
StrLess(a, b) ==
  IF b = <<>> THEN FALSE
  ELSE IF a = <<>> THEN TRUE
  ELSE IF Head(a) = Head(b) THEN StrLess(Tail(a), Tail(b))
  ELSE Ord(Head(a)) < Ord(Head(b))

RECURSIVE Pow10(_)
Pow10(k) == IF k = 0 THEN 1 ELSE 10 * Pow10(k - 1)

\* The value of a string of decimal digits.
RECURSIVE DigitsVal(_)
DigitsVal(s) ==
  IF s = <<>> THEN 0
  ELSE 10 * DigitsVal(SubSeq(s, 1, Len(s) - 1)) + DigitVal(s[Len(s)])

(***************************************************************************)
(* parse_time.                                                             *)
(***************************************************************************)
\* The character class [\.\d] of the pattern.
NumChars == Digits \cup {"."}

Units == <<"d", "h", "m", "s">>

NoGroups == [u \in 1..4 |-> <<>>]

\* The end of the maximal run of class characters that starts at i.
RECURSIVE RunEnd(_, _)
RunEnd(s, i) ==
  IF i <= Len(s) /\ s[i] \in NumChars THEN RunEnd(s, i + 1) ELSE i

\* $ matches at the end of the string and before a final newline.
AtEnd(s, i) == i = Len(s) + 1 \/ (i = Len(s) /\ s[i] = "\n")

\* regex.match(time_str): the four optional groups, in the order of the
\* pattern, each a non-empty run of class characters closed by its unit
\* letter.  A group that did not take part is the empty sequence (None).
RECURSIVE MatchGroups(_, _, _, _)
MatchGroups(s, i, u, groups) ==
  IF u > 4 THEN [matched |-> AtEnd(s, i), groups |-> groups]
  ELSE LET j == RunEnd(s, i)
       IN IF j > i /\ j <= Len(s) /\ s[j] = Units[u]
          THEN MatchGroups(s, j + 1, u + 1,
                           [groups EXCEPT ![u] = SubSeq(s, i, j - 1)])
          ELSE MatchGroups(s, i, u + 1, groups)

RegexMatch(s) == MatchGroups(s, 1, 1, NoGroups)

\* float(param) succeeds on class characters iff there is a digit and at
\* most one point.
FloatOk(param) ==
  /\ \E i \in 1..Len(param) : param[i] \in Digits
  /\ Cardinality({i \in 1..Len(param) : param[i] = "."}) <= 1

PointAt(param) ==
  IF \E i \in 1..Len(param) : param[i] = "."
  THEN CHOOSE i \in 1..Len(param) : param[i] = "."
  ELSE Len(param) + 1

\* A slip in the units: a minute counted as a second.
UnitMillisWrongMinute(u) ==
  CASE u = 1 -> 86400000 [] u = 2 -> 3600000 [] u = 3 -> 1000 [] u = 4 -> 1000

\* Milliseconds in one unit of each keyword of pd.Timedelta: days, hours,
\* minutes, seconds.
UnitMillis(u) ==
  CASE u = 1 -> 86400000 [] u = 2 -> 3600000 [] u = 3 -> 60000 [] u = 4 -> 1000

\* float(param) of unit u, in milliseconds (exact for up to three
\* fractional digits).
FloatMillis(param, u) ==
  LET p == PointAt(param)
      whole == DigitsVal(SubSeq(param, 1, p - 1))
      frac == SubSeq(param, p + 1, Len(param))
  IN whole * UnitMillis(u) + DigitsVal(frac) * (UnitMillis(u) \div Pow10(Len(frac)))

Outcome(kind, ms) == [kind |-> kind, ms |-> ms]

NotParsed == Outcome("none", 0)

RECURSIVE SumMillis(_, _)
SumMillis(groups, u) ==
  IF u > 4 THEN 0
  ELSE (IF groups[u] = <<>> THEN 0 ELSE FloatMillis(groups[u], u))
       + SumMillis(groups, u + 1)

\* parse_time(time_str): the duration, or the exception raised.
parse_time(s) ==
  LET parts == RegexMatch(s)
      time_params == {u \in 1..4 : parts.groups[u] # <<>>}
  IN IF ~parts.matched THEN Outcome("AssertionError", 0)
     ELSE IF \E u \in time_params : ~FloatOk(parts.groups[u])
          THEN Outcome("ValueError", 0)
     \* pd.Timedelta() without a value or keywords raises ValueError
     ELSE IF time_params = {} THEN Outcome("ValueError", 0)
     ELSE Outcome("Timedelta", SumMillis(parts.groups, 1))


(***************************************************************************)
(* Dicts: sequences of <<key, value>> pairs, in insertion order.           *)
(***************************************************************************)
DictHas(d, k) == \E i \in 1..Len(d) : d[i][1] = k

DictIndex(d, k) == CHOOSE i \in 1..Len(d) : d[i][1] = k

DictGet(d, k) == d[DictIndex(d, k)][2]

\* d[k] = v: an existing key keeps its place, a new key goes last.
DictSet(d, k, v) ==
  IF DictHas(d, k) THEN [d EXCEPT ![DictIndex(d, k)] = <<k, v>>]
  ELSE Append(d, <<k, v>>)

\* d.pop(k): the value and the dict without the key; KeyError (ok = FALSE)
\* when the key is absent.
Pop(d, k) ==
  IF DictHas(d, k)
  THEN LET i == DictIndex(d, k)
       IN [ok |-> TRUE, val |-> d[i][2],
           rest |-> SubSeq(d, 1, i - 1) \o SubSeq(d, i + 1, Len(d))]
  ELSE [ok |-> FALSE, val |-> <<>>, rest |-> d]

(***************************************************************************)
(* The string literals of the program and of its configuration.            *)
(***************************************************************************)
str_output_path == <<"o","u","t","p","u","t","_","p","a","t","h">>

str_num_scenarios == <<"n","u","m","_","s","c","e","n","a","r","i","o","s">>

str_time_step_format == <<"t","i","m","e","_","s","t","e","p","_","f","o","r","m","a","t">>

str_time_delta == <<"t","i","m","e","_","d","e","l","t","a">>

str_first_time_step == <<"f","i","r","s","t","_","t","i","m","e","_","s","t","e","p">>

str_output_html_file == <<"o","u","t","p","u","t","_","h","t","m","l","_","f","i","l","e">>

str_summary_ == <<"s","u","m","m","a","r","y","_">>

str_upper == <<"u","p","p","e","r">>

str_lower == <<"l","o","w","e","r">>

(***************************************************************************)
(* load_output_data.                                                       *)
(***************************************************************************)
DigitChar(n) ==
  CASE n = 0 -> "0" [] n = 1 -> "1" [] n = 2 -> "2" [] n = 3 -> "3"
    [] n = 4 -> "4" [] n = 5 -> "5" [] n = 6 -> "6" [] n = 7 -> "7"
    [] n = 8 -> "8" [] n = 9 -> "9"

\* '{}'.format(n) of a natural number
RECURSIVE IntToStr(_)
IntToStr(n) ==
  IF n < 10 THEN <<DigitChar(n)>>
  ELSE IntToStr(n \div 10) \o <<DigitChar(n % 10)>>

\* int(s) succeeds on a non-empty string of digits
IntOk(s) == s # <<>> /\ \A i \in 1..Len(s) : s[i] \in Digits

\* os.path.join(a, b)
OsPathJoin(a, b) ==
  IF b # <<>> /\ b[1] = "/" THEN b
  ELSE IF a = <<>> \/ a[Len(a)] = "/" THEN a \o b
  ELSE a \o <<"/">> \o b

\* output_path + '_{}/'.format(scenario_number)
ScenarioOutputPath(output_path, scenario_number) ==
  output_path \o <<"_">> \o IntToStr(scenario_number) \o <<"/">>

RECURSIVE DigitRunEnd(_, _)
DigitRunEnd(s, i) ==
  IF i <= Len(s) /\ s[i] \in Digits THEN DigitRunEnd(s, i + 1) ELSE i

\* Whether \d*\.?\d+ matches at position i.
NumberStartsAt(s, i) ==
  \/ s[i] \in Digits
  \/ s[i] = "." /\ i + 1 <= Len(s) /\ s[i + 1] \in Digits

\* The match of \d*\.?\d+ that starts at i.
NumberAt(s, i) ==
  IF s[i] = "." THEN SubSeq(s, i, DigitRunEnd(s, i + 1) - 1)
  ELSE LET j == DigitRunEnd(s, i)
       IN IF j + 1 <= Len(s) /\ s[j] = "." /\ s[j + 1] \in Digits
          THEN SubSeq(s, i, DigitRunEnd(s, j + 1) - 1)
          ELSE SubSeq(s, i, j - 1)

\* re.findall('\d*\.?\d+', file_name)[0]; the empty sequence when findall
\* returns no match (the index raises IndexError).
FindallFirst(s) ==
  IF \E i \in 1..Len(s) : NumberStartsAt(s, i)
  THEN LET i == CHOOSE k \in 1..Len(s) :
                  /\ NumberStartsAt(s, k)
                  /\ \A m \in 1..(k - 1) : ~NumberStartsAt(s, m)
       IN NumberAt(s, i)
  ELSE <<>>

\* The state of a path of the file system: "notfound", "error" (any other
\* failure of the read: permissions, a malformed file) or "ok".  A file
\* system is the set of its missing paths and the set of its unreadable ones.
Status(files, path) ==
  IF path \in files.missing THEN "notfound"
  ELSE IF path \in files.broken THEN "error"
  ELSE "ok"

\* A slip in the handler: `except Exception`, the fallback on any failure.
ReadAnyErrorFallback(files, first_path, base_path) ==
  IF Status(files, first_path) = "ok"
  THEN [err |-> "none", path |-> first_path, reads |-> <<first_path>>]
  ELSE IF Status(files, base_path) = "ok"
  THEN [err |-> "none", path |-> base_path, reads |-> <<first_path, base_path>>]
  ELSE [err |-> IF Status(files, base_path) = "notfound"
                THEN "FileNotFoundError" ELSE "ReadError",
        path |-> <<>>, reads |-> <<first_path, base_path>>]

\* The try/except FileNotFoundError around pd.read_csv: the path whose rows
\* are used and the reads attempted, in order.
ReadWithFallback(files, first_path, base_path) ==
  IF Status(files, first_path) = "ok"
  THEN [err |-> "none", path |-> first_path, reads |-> <<first_path>>]
  ELSE IF Status(files, first_path) # "notfound"
  THEN [err |-> "ReadError", path |-> <<>>, reads |-> <<first_path>>]
  ELSE IF Status(files, base_path) = "ok"
  THEN [err |-> "none", path |-> base_path, reads |-> <<first_path, base_path>>]
  ELSE [err |-> IF Status(files, base_path) = "notfound"
                THEN "FileNotFoundError" ELSE "ReadError",
        path |-> <<>>, reads |-> <<first_path, base_path>>]

\* fill_timestep
fill_timestep(timestep, first_time_step_datetime, time_delta) ==
  first_time_step_datetime + timestep * time_delta

\* A slip in the test: the file's name tested in place of its key.
BoundOfFileName(file_type, file_name) ==
  IF Contains(str_upper, file_name) THEN "upper"
  ELSE IF Contains(str_lower, file_name) THEN "lower"
  ELSE "middle"

\* The bound column of a summary file's rows: from file_type, the key.
BoundOf(file_type, file_name) ==
  IF Contains(str_upper, file_type) THEN "upper"
  ELSE IF Contains(str_lower, file_type) THEN "lower"
  ELSE "middle"

\* The rows of the CSV at path: RowsPerFile rows, timesteps 0, 1, ...; a row
\* carries the path it was read from, which stands for its data columns.
ReadCsv(path) == [k \in 1..RowsPerFile |-> [src |-> path, timestep |-> k - 1]]

\* One pass of the inner loop: the table of one summary file.
LoadSummary(ctx, scenario_output_path, file_type, file_name) ==
  LET percentile == FindallFirst(file_name)
      r == ReadWithFallback(ctx.files,
                            OsPathJoin(scenario_output_path, file_name),
                            OsPathJoin(ctx.output_path, file_name))
      raw == ReadCsv(r.path)
      bound == BoundOf(file_type, file_name)
  IN IF percentile = <<>>
     THEN [err |-> "IndexError", df |-> <<>>, reads |-> <<>>]
     ELSE IF r.err # "none"
     THEN [err |-> r.err, df |-> <<>>, reads |-> r.reads]
     ELSE [err |-> "none",
           df |-> [k \in 1..Len(raw) |->
                    [src |-> raw[k].src,
                     timestep |-> raw[k].timestep,
                     percentile |-> percentile,
                     timestep_formatted |->
                       fill_timestep(raw[k].timestep, ctx.first, ctx.delta),
                     bound |-> bound]],
           reads |-> r.reads]

\* The inner loop over summary_files, from entry j on.
RECURSIVE LoadFiles(_, _, _, _)
LoadFiles(ctx, scenario_output_path, j, acc) ==
  IF j > Len(ctx.summary_files) THEN acc
  ELSE LET r == LoadSummary(ctx, scenario_output_path,
                            ctx.summary_files[j][1], ctx.summary_files[j][2])
       IN IF r.err # "none"
          THEN [err |-> r.err, dfs |-> acc.dfs, reads |-> acc.reads \o r.reads]
          ELSE LoadFiles(ctx, scenario_output_path, j + 1,
                         [err |-> "none", dfs |-> Append(acc.dfs, r.df),
                          reads |-> acc.reads \o r.reads])

\* pd.concat of a non-empty list of tables
RECURSIVE Concat(_)
Concat(dfs) == IF dfs = <<>> THEN <<>> ELSE Head(dfs) \o Concat(Tail(dfs))

\* The outer loop over range(0, int(num_scenarios)), from scenario i on.
RECURSIVE LoadScenarios(_, _, _, _)
LoadScenarios(ctx, i, n, acc) ==
  IF i >= n THEN acc
  ELSE LET s == LoadFiles(ctx, ScenarioOutputPath(ctx.output_path, i), 1,
                          [err |-> "none", dfs |-> <<>>, reads |-> acc.reads])
       IN IF s.err # "none"
          THEN [err |-> s.err, tables |-> <<>>, reads |-> s.reads]
          \* pd.concat([]) raises ValueError: No objects to concatenate
          ELSE IF s.dfs = <<>>
          THEN [err |-> "ValueError", tables |-> <<>>, reads |-> s.reads]
          ELSE LoadScenarios(ctx, i + 1, n,
                             [err |-> "none",
                              tables |-> Append(acc.tables, Concat(s.dfs)),
                              reads |-> s.reads])

\* datetime.strptime(first_time_step, time_step_format): times are counted
\* in milliseconds from 2020-04-01 00:00, the one first time step configured.
str_date_format == <<"%","Y","-","%","m","-","%","d">>

str_first_date == <<"2","0","2","0","-","0","4","-","0","1">>

StrptimeOk(s, format) == s = str_first_date /\ format = str_date_format

Strptime(s, format) == 0

LoadResult(err, tables, fmt, reads, cfg) ==
  [err |-> err, tables |-> tables, fmt |-> fmt, reads |-> reads, config |-> cfg]

\* load_output_data(config): what it returns or raises, the reads it makes,
\* and the configuration mapping as the pops leave it.
load_output_data(cfg, files) ==
  LET p1 == Pop(cfg, str_output_path)
      p2 == Pop(p1.rest, str_num_scenarios)
      p3 == Pop(p2.rest, str_time_step_format)
      p4 == Pop(p3.rest, str_time_delta)
      time_delta == parse_time(p4.val)
      p5 == Pop(p4.rest, str_first_time_step)
      ctx == [output_path |-> p1.val,
              files |-> files,
              first |-> Strptime(p5.val, p3.val),
              delta |-> time_delta.ms,
              summary_files |->
                SelectSeq(p5.rest, LAMBDA e : StartsWith(e[1], str_summary_))]
      all == LoadScenarios(ctx, 0, DigitsVal(p2.val),
                           [err |-> "none", tables |-> <<>>, reads |-> <<>>])
  IN IF ~p1.ok THEN LoadResult("KeyError", <<>>, <<>>, <<>>, p1.rest)
     ELSE IF ~p2.ok THEN LoadResult("KeyError", <<>>, <<>>, <<>>, p2.rest)
     ELSE IF ~p3.ok THEN LoadResult("KeyError", <<>>, <<>>, <<>>, p3.rest)
     ELSE IF ~p4.ok THEN LoadResult("KeyError", <<>>, <<>>, <<>>, p4.rest)
     ELSE IF time_delta.kind # "Timedelta"
     THEN LoadResult(time_delta.kind, <<>>, <<>>, <<>>, p4.rest)
     ELSE IF ~p5.ok THEN LoadResult("KeyError", <<>>, <<>>, <<>>, p5.rest)
     ELSE IF ~StrptimeOk(p5.val, p3.val)
     THEN LoadResult("ValueError", <<>>, <<>>, <<>>, p5.rest)
     ELSE IF ~IntOk(p2.val)
     THEN LoadResult("ValueError", <<>>, <<>>, <<>>, p5.rest)
     ELSE IF all.err # "none"
     THEN LoadResult(all.err, <<>>, <<>>, all.reads, p5.rest)
     ELSE LoadResult("none", all.tables, p3.val, all.reads, p5.rest)

(***************************************************************************)
(* make_figure.                                                            *)
(***************************************************************************)
\* The columns of every summary CSV.
CsvColumns == {"timestep", "hosp", "icu", "vent"}

\* list(df.columns): the CSV's columns and the three the loader adds.
TableColumns == CsvColumns \cup {"percentile", "timestep_formatted", "bound"}

\* df.percentile.unique()
Unique(df) == {df[k].percentile : k \in 1..Len(df)}

\* A slip in the order: the percentiles as unique() gives them, in order of
\* first appearance, unsorted.
RECURSIVE Unsorted(_, _)
Unsorted(df, seen) ==
  IF df = <<>> THEN <<>>
  ELSE IF Head(df).percentile \in seen THEN Unsorted(Tail(df), seen)
  ELSE <<Head(df).percentile>>
       \o Unsorted(Tail(df), seen \cup {Head(df).percentile})

FirstAppearance(df) == Unsorted(df, {})

\* sorted(...) of a set of strings
RECURSIVE SortStrings(_)
SortStrings(S) ==
  IF S = {} THEN <<>>
  ELSE LET least == CHOOSE x \in S : \A y \in S \ {x} : StrLess(x, y)
       IN <<least>> \o SortStrings(S \ {least})

\* percentiles = sorted(df.percentile.unique())
Percentiles(df) == SortStrings(Unique(df))

\* df_filtered['bound'].all() == literal.  Series.all() on a column of
\* strings returns, by the pandas installed, either the last operand of the
\* chained `and` of its values (all_impl = "object": numpy's reduction of an
\* object array; every bound is a non-empty string, so the last row's value)
\* or the boolean True (all_impl = "bool"), which equals no string.
AllEquals(bounds, literal, impl) ==
  IF impl = "bool" THEN FALSE ELSE bounds[Len(bounds)] = literal

\* The width of a line drawn with no width given (plotly's default).
DefaultLineWidth == 2

\* The trace added for percentile p of column y.
Trace(df, y, p, impl) ==
  LET df_filtered == SelectSeq(df, LAMBDA r : r.percentile = p)
      bounds == [k \in 1..Len(df_filtered) |-> df_filtered[k].bound]
      x == [k \in 1..Len(df_filtered) |-> df_filtered[k].timestep_formatted]
  IN IF AllEquals(bounds, "lower", impl)
     THEN [p |-> p, y |-> y, x |-> x, fill |-> "none", width |-> 0]
     ELSE IF AllEquals(bounds, "upper", impl)
     THEN [p |-> p, y |-> y, x |-> x, fill |-> "tonexty", width |-> 0]
     ELSE [p |-> p, y |-> y, x |-> x, fill |-> "tonexty",
           width |-> DefaultLineWidth]

\* fig after the loop over percentiles: the layout title is set in the loop.
Figure(df, y, title, percentiles, impl) ==
  [title |-> IF percentiles = <<>> THEN "" ELSE title,
   traces |-> [k \in 1..Len(percentiles) |-> Trace(df, y, percentiles[k], impl)]]

\* The loop over labels.keys(): figures[labels[y]] = fig
RECURSIVE ScenarioFigures(_, _, _, _, _)
ScenarioFigures(df, lbls, j, impl, figs) ==
  IF j > Len(lbls) THEN figs
  ELSE ScenarioFigures(df, lbls, j + 1, impl,
         DictSet(figs, lbls[j][2],
                 Figure(df, lbls[j][1], lbls[j][2], Percentiles(df), impl)))

\* df_filtered[y] raises KeyError for a label that is no column of a table
\* with rows.
RaisesKeyError(dfs, lbls) ==
  \E i \in 1..Len(dfs), j \in 1..Len(lbls) :
     dfs[i] # <<>> /\ lbls[j][1] \notin TableColumns

\* make_figure(dfs, labels, time_step_format)
make_figure(dfs, lbls, impl) ==
  IF RaisesKeyError(dfs, lbls) THEN [err |-> "KeyError", figs |-> <<>>]
  ELSE [err |-> "none",
        figs |-> [i \in 1..Len(dfs) |->
                   ScenarioFigures(dfs[i], lbls, 1, impl, <<>>)]]

(***************************************************************************)
(* Configurations and file systems the program is run on.                  *)
(***************************************************************************)
str_out == <<"o","u","t">>

str_1d == <<"1","d">>

str_dashboard_html == <<"d","a","s","h","b","o","a","r","d",".","h","t","m","l">>

key_summary_upper == <<"s","u","m","m","a","r","y","_","u","p","p","e","r">>

key_summary_lower == <<"s","u","m","m","a","r","y","_","l","o","w","e","r">>

key_summary_a == <<"s","u","m","m","a","r","y","_","a">>

file_10_upper == <<"s","u","m","m","a","r","y","_","1","0","_","u","p","p","e","r",".","c","s","v">>

file_9_lower == <<"s","u","m","m","a","r","y","_","9","_","l","o","w","e","r",".","c","s","v">>

file_9 == <<"s","u","m","m","a","r","y","_","9",".","c","s","v">>

SummaryKeys == {key_summary_upper, key_summary_lower, key_summary_a}

FileNames == {file_10_upper, file_9_lower, file_9}

\* The summary_* entries of a configuration over the file names given:
\* distinct keys, in file order.
SummaryEntries(names) ==
  {s \in UNION {[1..k -> SummaryKeys \X names] : k \in 0..MaxSummary} :
     \A i, j \in 1..Len(s) : i # j => s[i][1] # s[j][1]}

MakeConfig(n, entries) ==
  << <<str_output_path, str_out>>,
     <<str_num_scenarios, IntToStr(n)>>,
     <<str_time_step_format, str_date_format>>,
     <<str_time_delta, str_1d>>,
     <<str_first_time_step, str_first_date>> >>
  \o entries \o << <<str_output_html_file, str_dashboard_html>> >>

Dirs == {str_out} \cup {ScenarioOutputPath(str_out, i) : i \in 0..(MaxScenarios - 1)}

\* The file names of the configurations whose files may be missing.
FaultyFileNames == {file_10_upper, file_9}

AllPaths == {OsPathJoin(d, f) : d \in Dirs, f \in FaultyFileNames}

\* File systems with at most MaxFaults paths missing or unreadable.
FileSystems ==
  {[missing |-> m, broken |-> b] :
     m \in {x \in SUBSET AllPaths : Cardinality(x) <= MaxFaults},
     b \in {x \in SUBSET AllPaths : Cardinality(x) <= MaxFaults}}

BoundedFileSystems ==
  {f \in FileSystems :
     /\ f.missing \cap f.broken = {}
     /\ Cardinality(f.missing \cup f.broken) <= MaxFaults}

NoFaults == [missing |-> {}, broken |-> {}]

NoLoad == [err |-> "none", tables |-> <<>>, fmt |-> <<>>, reads |-> <<>>]

(***************************************************************************)
(* The loader on its own, on every bounded configuration and file system.  *)
(***************************************************************************)
InitLoad ==
  /\ pc = "start"
  /\ \E n \in 0..MaxScenarios, entries \in SummaryEntries(FaultyFileNames) :
       config = MakeConfig(n, entries)
  /\ fs \in BoundedFileSystems
  /\ segments = <<>>
  /\ time_str = <<>>
  /\ parsed = NotParsed
  /\ labels = <<>>
  /\ all_impl = "object"
  /\ loaded = NoLoad
  /\ figures = <<>>
  /\ handle = "none"
  /\ html = <<>>

\* dfs, time_step_format = load_output_data(config), on the mapping the caller
\* holds: a first call, or a further call after one that returned.
LoadOutputData ==
  /\ pc \in {"start", "loaded"}
  /\ \E r \in {load_output_data(config, fs)} :
        /\ config' = r.config
        /\ loaded' = [err |-> r.err, tables |-> r.tables, fmt |-> r.fmt,
                      reads |-> r.reads]
        /\ pc' = IF r.err = "none" THEN "loaded" ELSE "failed"
  /\ UNCHANGED <<segments, time_str, parsed, fs, labels, all_impl, figures,
                 handle, html>>

NextLoad == LoadOutputData

SpecLoad == InitLoad /\ [][NextLoad]_vars

(***************************************************************************)
(* main(): load, build the figures, and return them (dash mode) or write   *)
(* the first scenario's figures (static mode).  Every summary file exists. *)
(***************************************************************************)
\* The entries of labels.json: two columns of the CSVs, under one title or
\* under two, and a column the CSVs do not have.
LabelEntries ==
  {<<"hosp", "Hospitalized">>, <<"icu", "Hospitalized">>, <<"icu", "Critical">>,
   <<"dead", "Deceased">>}

\* labels.json: distinct column names, in file order.
LabelDicts ==
  {l \in UNION {[1..k -> LabelEntries] : k \in 0..MaxLabels} :
     \A i, j \in 1..Len(l) : i # j => l[i][1] # l[j][1]}

InitMain ==
  /\ pc = "start"
  /\ \E n \in 0..MaxScenarios, entries \in SummaryEntries(FileNames) :
       config = MakeConfig(n, entries)
  /\ fs = NoFaults
  /\ labels \in LabelDicts
  /\ all_impl \in {"object", "bool"}
  /\ segments = <<>>
  /\ time_str = <<>>
  /\ parsed = NotParsed
  /\ loaded = NoLoad
  /\ figures = <<>>
  /\ handle = "none"
  /\ html = <<>>

\* figures = make_figure(dfs, labels, time_step_format)
MakeFigure ==
  /\ pc = "loaded"
  /\ \E r \in {make_figure(loaded.tables, labels, all_impl)} :
        /\ figures' = r.figs
        /\ pc' = IF r.err = "none" THEN "figured" ELSE "failed"
  /\ UNCHANGED <<segments, time_str, parsed, config, fs, labels, all_impl,
                 loaded, handle, html>>

\* if dash == True: return figures
ReturnFigures ==
  /\ pc = "figured"
  /\ pc' = "returned"
  /\ UNCHANGED <<segments, time_str, parsed, config, fs, labels, all_impl,
                 loaded, figures, handle, html>>

\* The chunks figures_to_html writes: the page shell's head, each figure's
\* body markup (named by the figure's title), the shell's tail.
Chunks(figs) ==
  <<"<html>">> \o [k \in 1..Len(figs) |-> figs[k][2].title] \o <<"</html>">>

\* figures_to_html(figures[0], filename=config['output_html_file']).  The
\* arguments raise IndexError with no scenario and KeyError with no
\* output_html_file.  open() may fail, leaving no handle.  Each write, or the
\* to_html() before it, may raise: fail_at names the chunk that is not
\* written, the chunks before it are; fail_at past the last chunk is the
\* run in which nothing raises.  The function never closes the handle: while
\* an exception propagates, its traceback keeps the frame and the handle
\* alive; on a normal return the runtime may or may not have finalized the
\* file object (finalized = TRUE: reference counting).
FiguresToHtml ==
  /\ pc = "figured"
  /\ IF figures = <<>> \/ ~DictHas(config, str_output_html_file)
     THEN /\ pc' = "failed"
          /\ UNCHANGED <<handle, html>>
     ELSE \E opened \in BOOLEAN, fail_at \in 1..(Len(Chunks(figures[1])) + 1),
             finalized \in BOOLEAN :
            IF ~opened
            THEN /\ fail_at = 1 /\ finalized
                 /\ pc' = "failed"
                 /\ UNCHANGED <<handle, html>>
            ELSE IF fail_at <= Len(Chunks(figures[1]))
            THEN /\ finalized
                 /\ html' = SubSeq(Chunks(figures[1]), 1, fail_at - 1)
                 /\ handle' = "open"
                 /\ pc' = "failed"
            ELSE /\ html' = Chunks(figures[1])
                 /\ handle' = IF finalized THEN "closed" ELSE "open"
                 /\ pc' = "written"
  /\ UNCHANGED <<segments, time_str, parsed, config, fs, labels, all_impl,
                 loaded, figures>>

NextMain == LoadOutputData \/ MakeFigure \/ ReturnFigures \/ FiguresToHtml

SpecMain == InitMain /\ [][NextMain]_vars

(***************************************************************************)
(* The duration parser on its own: the input is a string of up to          *)
(* MaxSegments segments, each an operand followed by a unit letter.        *)
(***************************************************************************)
Operands == {<<"2">>, <<"1", ".", "5">>}

\* Every operand with every unit, a point that is no number, and a segment
\* of characters outside the pattern.
Segments ==
  {<<o, u>> : o \in Operands, u \in {"d", "h", "m", "s"}}
    \cup {<< <<".">>, "s" >>, << <<"a", "b">>, "c" >>}

RECURSIVE Flatten(_)
Flatten(segs) ==
  IF segs = <<>> THEN <<>>
  ELSE segs[1][1] \o <<segs[1][2]>> \o Flatten(Tail(segs))

InitParse ==
  /\ pc = "input"
  /\ \E n \in 0..MaxSegments : segments \in [1..n -> Segments]
  /\ time_str = Flatten(segments)
  /\ parsed = NotParsed
  /\ config = <<>>
  /\ fs = NoFaults
  /\ labels = <<>>
  /\ all_impl = "object"
  /\ loaded = NoLoad
  /\ figures = <<>>
  /\ handle = "none"
  /\ html = <<>>

ParseTime ==
  /\ pc = "input"
  /\ parsed' = parse_time(time_str)
  /\ pc' = "parsed"
  /\ UNCHANGED <<segments, time_str, config, fs, labels, all_impl, loaded,
                 figures, handle, html>>

NextParse == ParseTime

SpecParse == InitParse /\ [][NextParse]_vars

(***************************************************************************)
(* Claims about parse_time, under SpecParse.                               *)
(***************************************************************************)
\* No day/hour/minute/second group of the match holds anything.
NoSegmentPopulated(s) ==
  \/ ~RegexMatch(s).matched
  \/ \A u \in 1..4 : RegexMatch(s).groups[u] = <<>>

\* C1: parse_time fails with the descriptive assertion for every input from
\* which no segment is populated, the empty string included; no other error
\* is raised and no duration is returned.
C1_NoSegmentRaisesAssertion ==
  (pc = "parsed" /\ NoSegmentPopulated(time_str))
    => parsed.kind = "AssertionError"

\* The operands of the input that are numbers, in tenths.
Tenths(operand) ==
  CASE operand = <<"2">> -> 20
    [] operand = <<"1", ".", "5">> -> 15

UnitRank(u) == CASE u = "d" -> 1 [] u = "h" -> 2 [] u = "m" -> 3 [] u = "s" -> 4

SecondsIn(u) ==
  CASE u = "d" -> 86400 [] u = "h" -> 3600 [] u = "m" -> 60 [] u = "s" -> 1

AllNumbers(segs) == \A i \in 1..Len(segs) : segs[i][1] \in Operands

InOrder(segs) ==
  \A i \in 1..(Len(segs) - 1) : UnitRank(segs[i][2]) < UnitRank(segs[i + 1][2])

RECURSIVE ExpectedMillis(_)
ExpectedMillis(segs) ==
  IF segs = <<>> THEN 0
  ELSE Tenths(segs[1][1]) * SecondsIn(segs[1][2]) * 100
       + ExpectedMillis(Tail(segs))

\* C8: a string of one or more <number><unit> segments in the order d, h, m,
\* s parses to the sum of its components; a string whose segments are in any
\* other order is not parsed into a duration.
C8_SumOfSegmentsInOrder ==
  (pc = "parsed" /\ segments # <<>> /\ AllNumbers(segments))
    => IF InOrder(segments)
       THEN parsed = Outcome("Timedelta", ExpectedMillis(segments))
       ELSE parsed.kind # "Timedelta"

C8_Witness ==
  /\ pc = "parsed"
  /\ Len(segments) = 4
  /\ AllNumbers(segments)
  /\ InOrder(segments)
  /\ segments[3][1] = <<"1", ".", "5">>
  /\ parsed.kind = "Timedelta"

(***************************************************************************)
(* Claims about load_output_data, under SpecLoad.                          *)
(***************************************************************************)
BasePath(f) == str_out \o <<"/">> \o f

ScenarioPath(i, f) == str_out \o <<"_">> \o IntToStr(i) \o <<"/">> \o f

IsBasePath(p) == \E f \in FileNames : p = BasePath(f)

\* p is the scenario-specific path of the file whose base path is q
FallbackOf(p, q) ==
  \E f \in FileNames, i \in 0..MaxScenarios : p = ScenarioPath(i, f) /\ q = BasePath(f)

SummaryFilesOf(cfg) == SelectSeq(cfg, LAMBDA e : StartsWith(e[1], str_summary_))

\* The scenario-specific paths a complete load reads first, in order.
RECURSIVE FirstReads(_, _, _)
FirstReads(entries, i, n) ==
  IF i >= n THEN <<>>
  ELSE [j \in 1..Len(entries) |-> ScenarioPath(i, entries[j][2])]
       \o FirstReads(entries, i + 1, n)

\* C3: each entry is read at <output_path>_<i>/<filename> first; the base
\* path is read if and only if that read fails with file-not-found, and its
\* rows are used; a failure of the fallback read propagates and no tables
\* are returned; any other failure of the first read propagates without a
\* fallback read.
C3_FallbackOnlyOnFileNotFound ==
  pc \in {"loaded", "failed"} =>
    LET R == loaded.reads
    IN /\ R # <<>> => ~IsBasePath(R[1])
       /\ \A k \in 1..Len(R) :
            /\ IsBasePath(R[k]) =>
                 /\ k > 1
                 /\ FallbackOf(R[k - 1], R[k])
                 /\ Status(fs, R[k - 1]) = "notfound"
            /\ (~IsBasePath(R[k]) /\ Status(fs, R[k]) = "notfound") =>
                 /\ k < Len(R)
                 /\ FallbackOf(R[k], R[k + 1])
            /\ (~IsBasePath(R[k]) /\ Status(fs, R[k]) = "error") =>
                 /\ k = Len(R)
                 /\ loaded.err = "ReadError"
                 /\ loaded.tables = <<>>
            /\ (IsBasePath(R[k]) /\ Status(fs, R[k]) # "ok") =>
                 /\ k = Len(R)
                 /\ loaded.err = IF Status(fs, R[k]) = "notfound"
                                 THEN "FileNotFoundError" ELSE "ReadError"
                 /\ loaded.tables = <<>>
       /\ loaded.err = "none" =>
            /\ SelectSeq(R, LAMBDA p : ~IsBasePath(p))
                 = FirstReads(SummaryFilesOf(config), 0, Len(loaded.tables))
            /\ \A t \in 1..Len(loaded.tables) :
                 \A k \in 1..Len(loaded.tables[t]) :
                   LET src == loaded.tables[t][k].src
                   IN \E f \in FileNames :
                        \/ /\ src = ScenarioPath(t - 1, f)
                           /\ Status(fs, src) = "ok"
                        \/ /\ src = BasePath(f)
                           /\ Status(fs, src) = "ok"
                           /\ Status(fs, ScenarioPath(t - 1, f)) = "notfound"

\* A load that returned tables after a fallback read, and one that failed
\* on the fallback read.
C3_Witness ==
  /\ pc = "loaded"
  /\ Len(loaded.tables) = 2
  /\ \E k \in 1..Len(loaded.reads) : IsBasePath(loaded.reads[k])
  /\ \E k \in 1..Len(loaded.tables[2]) : IsBasePath(loaded.tables[2][k].src)

\* Every file of the configuration is found at its scenario path or, that
\* one missing, at the base path.
AllResolve(cfg, files) ==
  \A i \in 0..(DigitsVal(DictGet(cfg, str_num_scenarios)) - 1) :
    \A j \in 1..Len(SummaryFilesOf(cfg)) :
      LET f == SummaryFilesOf(cfg)[j][2]
      IN \/ Status(files, ScenarioPath(i, f)) = "ok"
         \/ /\ Status(files, ScenarioPath(i, f)) = "notfound"
            /\ Status(files, BasePath(f)) = "ok"

ResolvedPath(files, i, f) ==
  IF Status(files, ScenarioPath(i, f)) = "ok" THEN ScenarioPath(i, f)
  ELSE BasePath(f)

\* The rows of the files resolved for scenario i, entry after entry.
RECURSIVE ExpectedRows(_, _, _, _)
ExpectedRows(entries, j, files, i) ==
  IF j > Len(entries) THEN <<>>
  ELSE [k \in 1..RowsPerFile |->
          [src |-> ResolvedPath(files, i, entries[j][2]), timestep |-> k - 1]]
       \o ExpectedRows(entries, j + 1, files, i)

DataOf(table) ==
  [k \in 1..Len(table) |-> [src |-> table[k].src, timestep |-> table[k].timestep]]

\* C4: for num_scenarios = n >= 0 and zero or more summary_* entries whose
\* files all resolve, the load returns exactly n tables, table i holding the
\* rows of the files resolved for scenario i in entry order (n empty tables
\* when there is no summary_* entry).
C4_ReturnsOneTablePerScenario ==
  [][(pc = "start" /\ AllResolve(config, fs)) =>
       /\ loaded'.err = "none"
       /\ Len(loaded'.tables) = DigitsVal(DictGet(config, str_num_scenarios))
       /\ \A t \in 1..Len(loaded'.tables) :
            DataOf(loaded'.tables[t])
              = ExpectedRows(SummaryFilesOf(config), 1, fs, t - 1)]_vars

\* C5: a load that returns leaves the configuration mapping it was passed
\* with the keys and values it had, so that a second load of the same
\* mapping returns the same tables and format.
C5_ConfigUnchangedByLoad ==
  [][(pc \in {"start", "loaded"} /\ loaded'.err = "none") =>
       /\ config' = config
       /\ (pc = "loaded" => loaded' = loaded)]_vars

(***************************************************************************)
(* Claims about the pipeline, under SpecMain.                              *)
(***************************************************************************)
\* The classification of the spec, applied to a name.
Classify(name) ==
  IF Contains(str_upper, name) THEN "upper"
  ELSE IF Contains(str_lower, name) THEN "lower"
  ELSE "middle"

\* The summary_* entry that row k of a loaded table was read for.
EntryOfRow(k) == SummaryFilesOf(config)[((k - 1) \div RowsPerFile) + 1]

C6_HandleClosedOnExit ==
  pc \in {"written", "failed"} => handle # "open"

\* C7: the keys of the mapping make_figure returns for a scenario table are
\* exactly the display titles of the labels mapping, in its order, one
\* figure per label entry.
C7_OneFigurePerLabel ==
  pc = "figured" =>
    \A i \in 1..Len(figures) :
      [k \in 1..Len(figures[i]) |-> figures[i][k][1]]
        = [k \in 1..Len(labels) |-> labels[k][2]]

\* The bounds of the rows of percentile p in a table.
BoundsOf(df, p) == {df[k].bound : k \in {m \in 1..Len(df) : df[m].percentile = p}}

\* C9: the trace of each percentile follows the bound of its rows: all
\* lower -> no fill and a zero-width line; all upper -> fill to the previous
\* trace and a zero-width line; otherwise fill to the previous trace and a
\* visible line.
C9_TraceFollowsBound ==
  pc = "figured" =>
    \A i \in 1..Len(figures) :
      \A j \in 1..Len(figures[i]) :
        \A k \in 1..Len(figures[i][j][2].traces) :
          LET trace == figures[i][j][2].traces[k]
              B == BoundsOf(loaded.tables[i], trace.p)
          IN IF B = {"lower"} THEN trace.fill = "none" /\ trace.width = 0
             ELSE IF B = {"upper"} THEN trace.fill = "tonexty" /\ trace.width = 0
             ELSE trace.fill = "tonexty" /\ trace.width > 0

\* C10: every figure has exactly one trace per distinct percentile string
\* of its table, added in ascending string order of the percentile text.
C10_OneTracePerPercentileInStringOrder ==
  pc = "figured" =>
    \A i \in 1..Len(figures) :
      \A j \in 1..Len(figures[i]) :
        LET traces == figures[i][j][2].traces
        IN /\ {traces[k].p : k \in 1..Len(traces)} = Unique(loaded.tables[i])
           /\ Len(traces) = Cardinality(Unique(loaded.tables[i]))
           /\ \A k \in 1..(Len(traces) - 1) : StrLess(traces[k].p, traces[k + 1].p)

\* A figure whose traces are those of percentile "10" and then of "9":
\* string order, against the numeric order of the values.
C10_Witness ==
  /\ pc = "figured"
  /\ \E i \in 1..Len(figures) :
       \E j \in 1..Len(figures[i]) :
         [k \in 1..Len(figures[i][j][2].traces) |-> figures[i][j][2].traces[k].p]
           = << <<"1", "0">>, <<"9">> >>

====
